---- MODULE Spec2Model ----
(***************************************************************************)
(* aionanoleaf: the device state cache of class Nanoleaf, the server-sent  *)
(* event engine (listen_events / _listen_for_server_sent_events), the      *)
(* command path (_request and its callers) and the callbacks the engine    *)
(* schedules.  One action per run of code between two awaits.              *)
(***************************************************************************)
EXTENDS Integers, Sequences, FiniteSets, TLC

VARIABLES
    cache,        \* the instance attributes written by get_info and by the engine
    auth_token,   \* Nanoleaf._auth_token ("None" when not configured)
    pc,           \* position of the listen_events task
    outcome,      \* how listen_events ended: "none" while it runs
    callbacks,    \* the callbacks handed to listen_events
    socket_port,  \* port of the UDP touch socket, 0 for None
    request_ids,  \* event type ids of request_url
    resp_status,  \* status of the open event-stream response, 0 when none
    content,      \* resp.content: frames fed by the transport and not read yet
    body,         \* state of resp.content: "none", "open", "eof", "error"
    sleeping,     \* seconds of the asyncio.sleep the engine is in, 0 when in none
    attempts,     \* number of session.get calls made by the engine
    failures,     \* number of ClientErrors caught by the engine
    sent,         \* number of frames the device has sent
    frames_read,  \* number of frames the engine has read from the open response
    tasks,        \* the tasks made by asyncio.create_task, in creation order
    call,         \* the command-path call in progress
    sent_request, \* url ids and headers of the last session.get of the engine
    datagrams,    \* the datagrams the UDP touch socket has received
    loop_exceptions, \* exceptions of callbacks handed to the loop's exception handler
    state_event,  \* the event_data of a StateEvent built on its own
    attribute_read, \* the result of reading its attribute property
    device        \* the device behind the API: its state, and its answer to get_info

vars == <<cache, auth_token, pc, outcome, callbacks, socket_port, request_ids,
          resp_status, content, body, sleeping, attempts, failures, sent,
          frames_read, tasks, call, sent_request, datagrams, loop_exceptions,
          state_event, attribute_read, device>>

touch_vars == <<datagrams, loop_exceptions>>

event_vars == <<state_event, attribute_read>>

engine_vars == <<pc, outcome, callbacks, socket_port, request_ids, resp_status,
                 content, body, sleeping, attempts, failures, sent, frames_read>>

----------------------------------------------------------------------------
(* Bounds of the exploration *)

MaxFrames == 2      \* frames the device sends in one run
MaxFailures == 2    \* transport failures the network produces in one run
MaxBuffer == 1      \* frames waiting unread in resp.content
MaxCalls == 1       \* command-path calls made in one run
MaxTaskEnds == 1    \* scheduled callbacks that come to an end in one run
MaxDatagrams == 2   \* datagrams the UDP socket receives in one run
MaxAttributeId == 8 \* the largest attribute id of a StateEvent built on its own
MaxChanges == 2     \* changes of its state the device makes in one run

(* Program constants *)

BackoffSeconds == 5
StateEvent_EVENT_TYPE_ID == 1
LayoutEvent_EVENT_TYPE_ID == 2
EffectsEvent_EVENT_TYPE_ID == 3
TouchEvent_EVENT_TYPE_ID == 4

None == "None"

EphemeralPort == 50000

Palette == <<"#FF0000", "#00FF00">>

----------------------------------------------------------------------------
(* Helpers on functions and sequences *)

Range(s) == {s[i] : i \in DOMAIN s}

\* The instance dictionary of the Nanoleaf object: attrs holds the names of the
\* attributes that exist, val their values (a placeholder of the attribute's type
\* for a name that does not exist yet).  Scalars are held as their JSON text.
Attributes ==
    {"name", "serial_no", "manufacturer", "firmware_version", "hardware_version",
     "model", "is_on", "brightness", "brightness_max", "brightness_min", "hue",
     "hue_max", "hue_min", "saturation", "saturation_max", "saturation_min",
     "color_temperature", "color_temperature_max", "color_temperature_min",
     "color_mode", "effects_list", "effect", "panels", "palette"}

Placeholder(k) ==
    CASE k \in {"effects_list", "palette"} -> <<>>
      [] k = "panels" -> {}
      [] OTHER -> ""

\* the object __init__ leaves: none of these attributes exists
NoAttributes == [attrs |-> {}, val |-> [k \in Attributes |-> Placeholder(k)]]

\* setattr(self, name, value) / self._name = value
setattr(obj, name, value) ==
    [attrs |-> obj.attrs \cup {name}, val |-> [obj.val EXCEPT ![name] = value]]

hasattr(obj, name) == name \in obj.attrs

\* self._name, read
getattr(obj, name) == obj.val[name]

----------------------------------------------------------------------------
(* events.py *)

StateEvent_attribute_table ==
    [i \in 1..6 |-> CASE i = 1 -> "is_on"
                      [] i = 2 -> "brightness"
                      [] i = 3 -> "hue"
                      [] i = 4 -> "saturation"
                      [] i = 5 -> "color_temperature"
                      [] i = 6 -> "color_mode"]

\* StateEvent.attribute with a default name for an id outside the table
StateEvent_attribute_default(event_data) ==
    IF event_data.attr \in DOMAIN StateEvent_attribute_table
    THEN StateEvent_attribute_table[event_data.attr]
    ELSE "unknown"

\* StateEvent.attribute: a dictionary lookup, KeyError outside the table
StateEvent_attribute(event_data) ==
    IF event_data.attr \in DOMAIN StateEvent_attribute_table
    THEN StateEvent_attribute_table[event_data.attr]
    ELSE "KeyError"

StateEvent_value(event_data) == event_data.value

EffectsEvent_effect(event_data) == event_data.value

----------------------------------------------------------------------------
(* Nanoleaf.selected_effect *)

\* selected_effect without the membership test
selected_effect_cached(obj) == getattr(obj, "effect")

selected_effect(obj) ==
    IF getattr(obj, "effect") \in Range(getattr(obj, "effects_list"))
    THEN getattr(obj, "effect")
    ELSE None

----------------------------------------------------------------------------
(* Inputs: what the device can send *)

\* the value a state event carries for each attribute id (7 is not a known id);
\* a scalar of the JSON payloads is held as its text
StateValue(a) ==
    CASE a = 1 -> "true"
      [] a = 2 -> "75"
      [] a = 3 -> "120"
      [] a = 4 -> "30"
      [] a = 5 -> "4000"
      [] a = 6 -> "ct"
      [] OTHER -> "1"

StateRecord(a) == [attr |-> a, value |-> StateValue(a)]

UnknownEventTypeId == 5

\* the frames of the event stream: an id line and the events of the data line
Frames ==
    <<[id |-> StateEvent_EVENT_TYPE_ID, events |-> <<StateRecord(2)>>],
      [id |-> StateEvent_EVENT_TYPE_ID, events |-> <<StateRecord(4), StateRecord(1)>>],
      [id |-> StateEvent_EVENT_TYPE_ID, events |-> <<StateRecord(3), StateRecord(5)>>],
      [id |-> StateEvent_EVENT_TYPE_ID, events |-> <<StateRecord(6), StateRecord(7)>>],
      [id |-> EffectsEvent_EVENT_TYPE_ID, events |-> <<[attr |-> 1, value |-> "Forest"]>>],
      [id |-> EffectsEvent_EVENT_TYPE_ID, events |-> <<[attr |-> 1, value |-> "Ghost"]>>],
      [id |-> LayoutEvent_EVENT_TYPE_ID, events |-> <<[attr |-> 1, value |-> "0"]>>],
      [id |-> TouchEvent_EVENT_TYPE_ID, events |-> <<[attr |-> 0, value |-> "7"]>>],
      [id |-> UnknownEventTypeId, events |-> <<[attr |-> 1, value |-> "0"]>>]>>

\* the snapshots GET /api/v1/{token}/ can return
InfoData1 ==
    [name |-> "Shapes", brightness |-> "50", effectsList |-> <<"Flames", "Forest">>,
     select |-> "Flames", positionData |-> <<1, 2>>]

InfoData2 ==
    [name |-> "Shapes", brightness |-> "50", effectsList |-> <<"Forest">>,
     select |-> "Flames", positionData |-> <<1, 1>>]

InfoData == {InfoData1, InfoData2}

\* what a callback argument of listen_events can be: None, an async function,
\* or a plain callable, whose result asyncio.create_task rejects
CallbackConfigs ==
    {[state |-> "None", layout |-> "None", effects |-> "None", touch |-> "None",
      touch_stream |-> "None"],
     [state |-> "coroutine", layout |-> "coroutine", effects |-> "coroutine",
      touch |-> "coroutine", touch_stream |-> "coroutine"],
     [state |-> "plain", layout |-> "None", effects |-> "None", touch |-> "None",
      touch_stream |-> "None"]}

----------------------------------------------------------------------------
(* The body of the read loop of _listen_for_server_sent_events, from the   *)
(* parsed frame to the next readline.  st = [cache, tasks, exc].           *)

\* create_task putting the new task in front of the earlier ones
create_task_in_front(callback, kind, event_data, st) ==
    IF callback = "plain"
    THEN [st EXCEPT !.exc = "TypeError"]
    ELSE [st EXCEPT !.tasks =
            <<[callback |-> kind, event |-> event_data, state |-> "pending"]>> \o @]

\* asyncio.create_task(callback(event)); a plain callable has run by then and
\* its result is no coroutine: TypeError
create_task(callback, kind, event_data, st) ==
    IF callback = "plain"
    THEN [st EXCEPT !.exc = "TypeError"]
    ELSE [st EXCEPT !.tasks =
            Append(@, [callback |-> kind, event |-> event_data, state |-> "pending"])]

schedule(callback, kind, event_data, st) ==
    IF callback # "None" THEN create_task(callback, kind, event_data, st) ELSE st

\* patch_state with a second write, to the bound of the brightness
patch_state_wrong_field(obj, event_data) ==
    IF StateEvent_attribute(event_data) = "brightness"
    THEN setattr(setattr(obj, "brightness", StateEvent_value(event_data)),
                 "brightness_max", StateEvent_value(event_data))
    ELSE setattr(obj, StateEvent_attribute(event_data), StateEvent_value(event_data))

\* the patch of a StateEvent: setattr(self, f"_{event.attribute}", event.value)
patch_state(obj, event_data) ==
    setattr(obj, StateEvent_attribute(event_data), StateEvent_value(event_data))

\* patch_effect writing the effects list as well
patch_effect_and_list(obj, event_data) ==
    setattr(setattr(obj, "effect", EffectsEvent_effect(event_data)),
            "effects_list", <<EffectsEvent_effect(event_data)>>)

\* the patch of an EffectsEvent: self._effect = effects_event.effect
patch_effect(obj, event_data) == setattr(obj, "effect", EffectsEvent_effect(event_data))

\* process_event scheduling the callback first and patching after it
process_event_schedule_first(event_type_id, event_data, cbs, st) ==
    IF event_type_id = StateEvent_EVENT_TYPE_ID
    THEN IF StateEvent_attribute(event_data) = "KeyError"
         THEN [st EXCEPT !.exc = "KeyError"]
         ELSE LET scheduled == schedule(cbs.state, "state", event_data, st) IN
              IF scheduled.exc # "none"
              THEN scheduled
              ELSE [scheduled EXCEPT !.cache = patch_state(@, event_data)]
    ELSE IF event_type_id = LayoutEvent_EVENT_TYPE_ID
    THEN schedule(cbs.layout, "layout", event_data, st)
    ELSE IF event_type_id = EffectsEvent_EVENT_TYPE_ID
    THEN LET scheduled == schedule(cbs.effects, "effects", event_data, st) IN
         IF scheduled.exc # "none"
         THEN scheduled
         ELSE [scheduled EXCEPT !.cache = patch_effect(@, event_data)]
    ELSE IF event_type_id = TouchEvent_EVENT_TYPE_ID
    THEN schedule(cbs.touch, "touch", event_data, st)
    ELSE [st EXCEPT !.exc = "NanoleafException"]

process_event(event_type_id, event_data, cbs, st) ==
    IF event_type_id = StateEvent_EVENT_TYPE_ID
    THEN IF StateEvent_attribute(event_data) = "KeyError"
         THEN [st EXCEPT !.exc = "KeyError"]
         ELSE schedule(cbs.state, "state", event_data,
                       [st EXCEPT !.cache = patch_state(@, event_data)])
    ELSE IF event_type_id = LayoutEvent_EVENT_TYPE_ID
    THEN schedule(cbs.layout, "layout", event_data, st)
    ELSE IF event_type_id = EffectsEvent_EVENT_TYPE_ID
    THEN schedule(cbs.effects, "effects", event_data,
                  [st EXCEPT !.cache = patch_effect(@, event_data)])
    ELSE IF event_type_id = TouchEvent_EVENT_TYPE_ID
    THEN schedule(cbs.touch, "touch", event_data, st)
    ELSE [st EXCEPT !.exc = "NanoleafException"]

\* process_events going on with the records after the one that raised
RECURSIVE process_events_to_end(_, _, _, _)
process_events_to_end(event_type_id, events, cbs, st) ==
    IF events = <<>>
    THEN st
    ELSE process_events_to_end(event_type_id, Tail(events), cbs,
                               process_event(event_type_id, Head(events), cbs, st))

\* process_events handing control back after the first record of the frame
process_events_first_only(event_type_id, events, cbs, st) ==
    IF events = <<>> THEN st ELSE process_event(event_type_id, Head(events), cbs, st)

RECURSIVE process_events(_, _, _, _)
process_events(event_type_id, events, cbs, st) ==
    IF events = <<>> \/ st.exc # "none"
    THEN st
    ELSE process_events(event_type_id, Tail(events), cbs,
                        process_event(event_type_id, Head(events), cbs, st))

process_frame(frame, cbs, obj, created) ==
    process_events(frame.id, frame.events, cbs,
                   [cache |-> obj, tasks |-> created, exc |-> "none"])

----------------------------------------------------------------------------
(* The command path: _request and its callers *)

NoCall == [op |-> "none", pc |-> "idle", try |-> 0, stage |-> 0, requests |-> 0,
           result |-> "none", made |-> 0]

Ops == {"get_info", "set_state", "set_effect", "deauthorize", "identify"}

\* the attributes get_info assigns from the snapshot (lines 278-300)
snapshot_attributes(data) ==
    [name |-> data.name, serial_no |-> "S1", manufacturer |-> "Nanoleaf",
     firmware_version |-> "9.0", hardware_version |-> "2.0", model |-> "NL42",
     is_on |-> "false",
     brightness |-> data.brightness, brightness_max |-> "100", brightness_min |-> "0",
     hue |-> "0", hue_max |-> "360", hue_min |-> "0",
     saturation |-> "0", saturation_max |-> "100", saturation_min |-> "0",
     color_temperature |-> "2700", color_temperature_max |-> "6500",
     color_temperature_min |-> "1200",
     color_mode |-> "hs",
     effects_list |-> data.effectsList, effect |-> data.select,
     panels |-> {[panel |-> i, id |-> data.positionData[i]] : i \in DOMAIN data.positionData}]

\* several assignments to instance attributes
assign(obj, new) ==
    [attrs |-> obj.attrs \cup DOMAIN new,
     val |-> [k \in Attributes |-> IF k \in DOMAIN new THEN new[k] ELSE obj.val[k]]]

\* the local checks made before the first request of a call:
\* set_effect's membership test, then the auth_token property read by _request
precondition(op, effect) ==
    IF op = "set_effect" /\ ~hasattr(cache, "effects_list") THEN "AttributeError"
    ELSE IF op = "set_effect" /\ effect \notin Range(getattr(cache, "effects_list")) THEN "InvalidEffect"
    ELSE IF auth_token = None THEN "NoAuthToken"
    ELSE "none"

\* a caller starts a command: the code up to the first session.request
start_call(op, effect) ==
    /\ call.pc \in {"idle", "done"}
    /\ call.made < MaxCalls
    /\ LET err == precondition(op, effect) IN
       call' = IF err # "none"
               THEN [op |-> op, pc |-> "done", try |-> 0, stage |-> 0, requests |-> 0,
                     result |-> err, made |-> call.made + 1]
               ELSE [op |-> op, pc |-> "request", try |-> 1, stage |-> 1, requests |-> 1,
                     result |-> "none", made |-> call.made + 1]
    /\ UNCHANGED <<cache, auth_token, engine_vars, tasks, sent_request, touch_vars, event_vars, device>>

\* request_disconnected retrying after every disconnect
request_disconnected_again ==
    /\ call.pc = "request"
    /\ call' = [call EXCEPT !.try = @ + 1, !.requests = @ + 1]
    /\ UNCHANGED <<cache, auth_token, engine_vars, tasks, sent_request, touch_vars, event_vars, device>>

\* session.request raises ServerDisconnectedError: retried once, then Unavailable
request_disconnected ==
    /\ call.pc = "request"
    /\ call' = IF call.try = 1
               THEN [call EXCEPT !.try = 2, !.requests = @ + 1]
               ELSE [call EXCEPT !.pc = "done", !.result = "Unavailable"]
    /\ UNCHANGED <<cache, auth_token, engine_vars, tasks, sent_request, touch_vars, event_vars, device>>

\* session.request raises another ClientConnectionError or asyncio.TimeoutError
request_failed ==
    /\ call.pc = "request"
    /\ call' = [call EXCEPT !.pc = "done", !.result = "Unavailable"]
    /\ UNCHANGED <<cache, auth_token, engine_vars, tasks, sent_request, touch_vars, event_vars, device>>

\* request_status without the test of line 245
request_status_no_401(status) ==
    IF status >= 400 THEN "ClientResponseError" ELSE "none"

\* what _request does with a response of the given status
request_status(status) ==
    IF status = 401 THEN "InvalidToken"
    ELSE IF status >= 400 THEN "ClientResponseError"
    ELSE "none"

\* the device answers: _request returns or raises, and on a return the caller
\* runs up to its next request or its end
response(status, data) ==
    /\ call.pc = "request"
    /\ IF request_status(status) # "none"
       THEN /\ call' = [call EXCEPT !.pc = "done", !.result = request_status(status)]
            /\ UNCHANGED <<cache, auth_token>>
       ELSE IF call.op = "get_info" /\ call.stage = 1
       THEN /\ cache' = assign(cache, snapshot_attributes(data))
            /\ call' = [call EXCEPT !.stage = 2, !.try = 1, !.requests = @ + 1]
            /\ UNCHANGED auth_token
       ELSE IF call.op = "get_info"
       THEN /\ cache' = setattr(cache, "palette", Palette)
            /\ call' = [call EXCEPT !.pc = "done", !.result = "ok"]
            /\ UNCHANGED auth_token
       ELSE IF call.op = "deauthorize"
       THEN /\ auth_token' = None
            /\ call' = [call EXCEPT !.pc = "done", !.result = "ok"]
            /\ UNCHANGED cache
       ELSE /\ call' = [call EXCEPT !.pc = "done", !.result = "ok"]
            /\ UNCHANGED <<cache, auth_token>>
    /\ UNCHANGED <<engine_vars, tasks, sent_request, touch_vars, event_vars, device>>

----------------------------------------------------------------------------
(* The event engine: listen_events and _listen_for_server_sent_events *)

\* event_ids with the ids in ascending order
event_ids_sorted(cbs, port) ==
    <<StateEvent_EVENT_TYPE_ID>>
    \o (IF cbs.layout # "None" THEN <<LayoutEvent_EVENT_TYPE_ID>> ELSE <<>>)
    \o <<EffectsEvent_EVENT_TYPE_ID>>
    \o (IF cbs.touch # "None" \/ port # 0 THEN <<TouchEvent_EVENT_TYPE_ID>> ELSE <<>>)

\* the ids of request_url, in the order they are written (lines 431-438)
event_ids(cbs, port) ==
    <<StateEvent_EVENT_TYPE_ID, EffectsEvent_EVENT_TYPE_ID>>
    \o (IF cbs.layout # "None" THEN <<LayoutEvent_EVENT_TYPE_ID>> ELSE <<>>)
    \o (IF cbs.touch # "None" \/ port # 0 THEN <<TouchEvent_EVENT_TYPE_ID>> ELSE <<>>)

\* request_headers without the TouchEventsPort entry
no_request_headers(port) == 0

\* request_headers: the TouchEventsPort of the socket, 0 for None (lines 439-441)
request_headers(port) == port

\* the arguments of self._session.get (lines 445-447)
session_get(ids, port) == [url |-> ids, TouchEventsPort |-> request_headers(port)]

\* no session.get made yet
NoRequest == [url |-> <<>>, TouchEventsPort |-> 0]

\* listen_events up to the first session.get
listen_events(cbs) ==
    /\ pc = "Idle"
    /\ callbacks' = cbs
    /\ socket_port' = IF cbs.touch_stream # "None" THEN EphemeralPort ELSE 0
    /\ IF auth_token = None
       THEN /\ pc' = "Stopped"
            /\ outcome' = "NoAuthToken"
            /\ UNCHANGED <<request_ids, attempts, sent_request>>
       ELSE /\ pc' = "Connecting"
            /\ request_ids' = event_ids(cbs, socket_port')
            /\ sent_request' = session_get(request_ids', socket_port')
            /\ attempts' = attempts + 1
            /\ UNCHANGED outcome
    /\ UNCHANGED <<cache, auth_token, resp_status, content, body, sleeping, failures,
                   sent, frames_read, tasks, call, touch_vars, event_vars, device>>

\* on_client_error with a limit of one retry
on_client_error_gives_up ==
    /\ pc' = IF failures >= 1 THEN "Stopped" ELSE "Backoff"
    /\ sleeping' = BackoffSeconds
    /\ failures' = failures + 1
    /\ resp_status' = 0
    /\ content' = <<>>
    /\ body' = "none"
    /\ frames_read' = 0

\* the except clause of the engine: a ClientError ends the attempt and sleeps
on_client_error ==
    /\ pc' = "Backoff"
    /\ sleeping' = BackoffSeconds
    /\ failures' = failures + 1
    /\ resp_status' = 0
    /\ content' = <<>>
    /\ body' = "none"
    /\ frames_read' = 0

\* session.get returns a response: the device answered with a status line.
\* The body of a 401 answer carries no frame and is complete at once.
session_get_response(status) ==
    /\ pc = "Connecting"
    /\ pc' = "Streaming"
    /\ resp_status' = status
    /\ body' = IF status = 401 THEN "eof" ELSE "open"
    /\ content' = <<>>
    /\ frames_read' = 0
    /\ UNCHANGED <<cache, auth_token, outcome, callbacks, socket_port, request_ids, sent_request,
                   sleeping, attempts, failures, sent, tasks, call, touch_vars, event_vars, device>>

\* session.get raises a ClientError (refused, reset, connect timeout)
session_get_error ==
    /\ pc = "Connecting"
    /\ failures < MaxFailures
    /\ on_client_error
    /\ UNCHANGED <<cache, auth_token, outcome, callbacks, socket_port, request_ids, sent_request,
                   attempts, sent, tasks, call, touch_vars, event_vars, device>>

\* session.get raises ServerDisconnectedError, a ClientError: the device closed
\* the connection before it answered the request
session_get_disconnected ==
    /\ pc = "Connecting"
    /\ failures < MaxFailures
    /\ on_client_error
    /\ UNCHANGED <<cache, auth_token, outcome, callbacks, socket_port, request_ids,
                   sent_request, attempts, sent, tasks, call, touch_vars, event_vars, device>>

\* the device writes one frame, which the transport feeds to resp.content
server_send(frame) ==
    /\ pc = "Streaming"
    /\ body = "open"
    /\ sent < MaxFrames
    /\ Len(content) < MaxBuffer
    /\ content' = Append(content, frame)
    /\ sent' = sent + 1
    /\ UNCHANGED <<cache, auth_token, pc, outcome, callbacks, socket_port, request_ids, sent_request,
                   resp_status, body, sleeping, attempts, failures, frames_read, tasks,
                   call, touch_vars, event_vars, device>>

\* the device ends the response body: feed_eof marks the response closed
server_close ==
    /\ pc = "Streaming"
    /\ body = "open"
    /\ body' = "eof"
    /\ UNCHANGED <<cache, auth_token, pc, outcome, callbacks, socket_port, request_ids, sent_request,
                   resp_status, content, sleeping, attempts, failures, sent, frames_read,
                   tasks, call, touch_vars, event_vars, device>>

\* the connection is lost in the middle of the body: resp.content holds an exception
connection_reset ==
    /\ pc = "Streaming"
    /\ body = "open"
    /\ failures < MaxFailures
    /\ body' = "error"
    /\ UNCHANGED <<cache, auth_token, pc, outcome, callbacks, socket_port, request_ids, sent_request,
                   resp_status, content, sleeping, attempts, failures, sent, frames_read,
                   tasks, call, touch_vars, event_vars, device>>

\* resp.closed
resp_closed == body = "eof"

\* the engine holds the connection of a response: inside the async with, the body
\* not at its end
response_open == body \in {"open", "error"}

\* the datagram transport made by create_datagram_endpoint (lines 412-415) is
\* open: no code closes it
touch_socket_open == socket_port # 0

\* the three readlines and the code up to the next readline (lines 449-478)
read_frame ==
    /\ pc = "Streaming"
    /\ IF body = "error"
       THEN /\ on_client_error
            /\ UNCHANGED <<cache, outcome, tasks>>
       ELSE IF resp_closed
       THEN /\ pc' = "Stopped"
            /\ outcome' = "returned"
            /\ content' = <<>>
            /\ UNCHANGED <<cache, resp_status, body, sleeping, failures, frames_read,
                           tasks>>
       ELSE /\ content # <<>>
            /\ LET st == process_frame(Head(content), callbacks, cache, tasks) IN
               /\ cache' = st.cache
               /\ tasks' = st.tasks
               /\ content' = Tail(content)
               /\ frames_read' = frames_read + 1
               /\ pc' = IF st.exc = "none" THEN "Streaming" ELSE "Stopped"
               /\ outcome' = st.exc
               /\ body' = IF st.exc = "none" THEN body ELSE "none"
            /\ UNCHANGED <<resp_status, sleeping, failures>>
    /\ UNCHANGED <<auth_token, callbacks, socket_port, request_ids, sent_request, attempts, sent, call, touch_vars, event_vars, device>>

\* asyncio.sleep(5) returns: the while loop calls session.get again
sleep_done ==
    /\ pc = "Backoff"
    /\ sleeping = BackoffSeconds
    /\ sleeping' = 0
    /\ pc' = "Connecting"
    /\ attempts' = attempts + 1
    /\ sent_request' = session_get(request_ids, socket_port)
    /\ UNCHANGED <<cache, auth_token, outcome, callbacks, socket_port, request_ids,
                   resp_status, content, body, failures, sent, frames_read, tasks,
                   call, touch_vars, event_vars, device>>

\* the caller cancels the listen_events task at one of its awaits
cancel ==
    /\ pc \in {"Connecting", "Streaming", "Backoff"}
    /\ pc' = "Stopped"
    /\ outcome' = "cancelled"
    /\ content' = <<>>
    /\ body' = "none"
    /\ sleeping' = 0
    /\ UNCHANGED <<cache, auth_token, callbacks, socket_port, request_ids, sent_request, resp_status,
                   attempts, failures, sent, frames_read, tasks, call, touch_vars, event_vars, device>>

\* a task made by create_task runs its callback to an end
task_ends(i, how) ==
    /\ i \in DOMAIN tasks
    /\ tasks[i].state = "pending"
    /\ Cardinality({j \in DOMAIN tasks : tasks[j].state # "pending"}) < MaxTaskEnds
    /\ tasks' = [tasks EXCEPT ![i].state = how]
    /\ UNCHANGED <<cache, auth_token, engine_vars, call, sent_request, touch_vars, event_vars, device>>

----------------------------------------------------------------------------
(* A StateEvent on its own: events.py *)

\* before any StateEvent is built
NoStateEvent == [attr |-> 0, value |-> ""]

\* the event_data a StateEvent can be built from
StateEventData ==
    [attr : 0..MaxAttributeId, value : {"true", "75", "120", "30", "4000", "ct"}]

\* StateEvent(event_data)
StateEvent_init(event_data) ==
    /\ state_event' = event_data
    /\ attribute_read' = "unread"
    /\ UNCHANGED <<cache, auth_token, engine_vars, tasks, call, sent_request, touch_vars,
                   device>>

\* event.attribute
read_attribute ==
    /\ attribute_read # "no event"
    /\ attribute_read' = StateEvent_attribute(state_event)
    /\ UNCHANGED <<cache, auth_token, engine_vars, tasks, call, sent_request, touch_vars,
                   state_event, device>>

----------------------------------------------------------------------------
(* The UDP touch stream: _NanoleafTouchProtocol.datagram_received *)

\* self.host of the handle, and the senders a datagram can come from
Host == "192.168.0.50"

Addrs == {Host, "192.168.0.66"}

\* n written on w bits, the most significant first
RECURSIVE ToBits(_, _)
ToBits(n, w) == IF w = 0 THEN <<>> ELSE Append(ToBits(n \div 2, w - 1), n % 2)

\* the datagrams the socket can receive; the bytes are held as their bits, in
\* network order: 6 and 4 bytes that start with a 1 bit, 6 bytes that start with
\* a 0 bit, 7 bytes that start with the 16-bit number 1, 3 bytes, 1 byte, no
\* byte, and 6 zero bytes
Datagrams ==
    <<<<1>> \o ToBits(258, 16) \o ToBits(2, 4) \o ToBits(9, 4) \o ToBits(7, 23),
      <<1>> \o ToBits(65535, 16) \o ToBits(15, 4) \o ToBits(0, 4) \o ToBits(18, 7),
      <<0>> \o ToBits(258, 16) \o ToBits(2, 4) \o ToBits(9, 4) \o ToBits(7, 23),
      ToBits(1, 16) \o ToBits(42, 16) \o ToBits(1, 4) \o ToBits(3, 4) \o ToBits(18, 16),
      <<1>> \o ToBits(258, 16) \o ToBits(2, 4) \o ToBits(4, 3),
      ToBits(129, 8),
      <<>>,
      ToBits(0, 48)>>

\* the digits of bin(int.from_bytes(data, byteorder="big")), after its "0b":
\* no leading zero, and "0" for the number 0
RECURSIVE lstrip_zeros(_)
lstrip_zeros(bits) ==
    IF bits # <<>> /\ Head(bits) = 0 THEN lstrip_zeros(Tail(bits)) ELSE bits

bin(data) == IF lstrip_zeros(data) = <<>> THEN <<0>> ELSE lstrip_zeros(data)

\* s[a:b] of a string, a and b clamped to its length
slice(s, a, b) ==
    LET lo == IF a > Len(s) THEN Len(s) ELSE a
        hi == IF b > Len(s) THEN Len(s) ELSE b
    IN IF lo >= hi THEN <<>> ELSE SubSeq(s, lo + 1, hi)

RECURSIVE from_bits(_)
from_bits(s) ==
    IF s = <<>> THEN 0 ELSE 2 * from_bits(SubSeq(s, 1, Len(s) - 1)) + s[Len(s)]

\* int(s, 2) reading the empty string as 0
int_base2_lenient(s) == [exc |-> "none", value |-> from_bits(s)]

\* int(s, 2): ValueError for the empty string
int_base2(s) ==
    IF s = <<>>
    THEN [exc |-> "ValueError", value |-> 0]
    ELSE [exc |-> "none", value |-> from_bits(s)]

\* lines 527-534: the arguments of TouchStreamEvent, or the exception of one of them
decode(data) ==
    LET binary == slice(bin(data), 1, Len(bin(data)))   \* binary[3:] of "0b1..."
        panel_id == int_base2(slice(binary, 0, 16))
        touch_type_id == int_base2(slice(binary, 16, 20))
        strength == int_base2(slice(binary, 20, 24))
        panel_id_2 == int_base2(slice(binary, 24, Len(binary)))
    IN IF \E f \in {panel_id, touch_type_id, strength, panel_id_2} : f.exc # "none"
       THEN [exc |-> "ValueError",
             event |-> [panel_id |-> 0, touch_type_id |-> 0, strength |-> 0,
                        panel_id_2 |-> 0]]
       ELSE [exc |-> "none",
             event |-> [panel_id |-> panel_id.value,
                        touch_type_id |-> touch_type_id.value,
                        strength |-> strength.value,
                        panel_id_2 |-> panel_id_2.value]]

\* the sender test passing every datagram
from_anyone(addr) == TRUE

\* line 525: addr[0] == self._nanoleaf_host
from_device(addr) == addr = Host

\* the transport hands a datagram to the protocol; an exception of the method goes
\* to the exception handler of the loop, and the transport goes on reading
datagram_received(data, addr) ==
    /\ socket_port # 0
    /\ Len(datagrams) < MaxDatagrams
    /\ datagrams' = Append(datagrams, [addr |-> addr, data |-> data])
    /\ IF ~from_device(addr)
       THEN UNCHANGED <<tasks, loop_exceptions>>
       ELSE IF decode(data).exc # "none"
       THEN /\ loop_exceptions' = Append(loop_exceptions, decode(data).exc)
            /\ UNCHANGED tasks
       ELSE LET st == create_task(callbacks.touch_stream, "touch_stream",
                                  decode(data).event,
                                  [cache |-> cache, tasks |-> tasks, exc |-> "none"])
            IN /\ tasks' = st.tasks
               /\ loop_exceptions' = IF st.exc = "none"
                                     THEN loop_exceptions
                                     ELSE Append(loop_exceptions, st.exc)
    /\ UNCHANGED <<cache, auth_token, engine_vars, call, sent_request, event_vars, device>>

----------------------------------------------------------------------------

----------------------------------------------------------------------------
(* The device behind the API, as far as get_info and the event stream read it *)

\* the device in the state the snapshot InfoData1 describes; answered: it has
\* produced the body of the snapshot response of the get_info in flight
DeviceInit ==
    [brightness |-> InfoData1.brightness, effect |-> InfoData1.select, changes |-> 0,
     answered |-> FALSE, snapshot |-> InfoData1]

\* the values the device can change to
DeviceValues(k) == IF k = "brightness" THEN {"50", "75"} ELSE {"Flames", "Forest"}

\* the frame by which the device reports a change to an open event stream
change_frame(k, v) ==
    IF k = "brightness"
    THEN [id |-> StateEvent_EVENT_TYPE_ID, events |-> <<[attr |-> 2, value |-> v]>>]
    ELSE [id |-> EffectsEvent_EVENT_TYPE_ID, events |-> <<[attr |-> 1, value |-> v]>>]

\* the device changes its brightness or its effect; it writes the event to the
\* response body of the engine's request when that body is open, and nowhere else
device_change(k, v) ==
    /\ device.changes < MaxChanges
    /\ v # device[k]
    /\ device' = [device EXCEPT ![k] = v, !.changes = @ + 1]
    /\ content' = IF pc = "Streaming" /\ body = "open"
                  THEN Append(content, change_frame(k, v))
                  ELSE content
    /\ UNCHANGED <<cache, auth_token, pc, outcome, callbacks, socket_port, request_ids,
                   resp_status, body, sleeping, attempts, failures, sent, frames_read,
                   tasks, call, sent_request, touch_vars, event_vars>>

\* the device produces the body of the answer to GET /api/v1/{token}/ from its
\* state of that moment
device_snapshot ==
    /\ call.op = "get_info"
    /\ call.pc = "request"
    /\ call.stage = 1
    /\ ~device.answered
    /\ device' = [device EXCEPT !.answered = TRUE,
                                !.snapshot = [InfoData1 EXCEPT !.brightness = device.brightness,
                                                               !.select = device.effect]]
    /\ UNCHANGED <<cache, auth_token, engine_vars, tasks, call, sent_request, touch_vars,
                   event_vars>>

\* the answers of the device to the two requests of get_info reach the caller
device_response ==
    /\ call.op = "get_info"
    /\ call.stage = 1 => device.answered
    /\ response(200, device.snapshot)

\* the state after construction: Nanoleaf(session, host, auth_token)
Init ==
    /\ cache = NoAttributes
    /\ auth_token \in {"token", None}
    /\ pc = "Idle"
    /\ outcome = "none"
    /\ callbacks = [state |-> "None", layout |-> "None", effects |-> "None",
                    touch |-> "None", touch_stream |-> "None"]
    /\ socket_port = 0
    /\ request_ids = <<>>
    /\ resp_status = 0
    /\ content = <<>>
    /\ body = "none"
    /\ sleeping = 0
    /\ attempts = 0
    /\ failures = 0
    /\ sent = 0
    /\ frames_read = 0
    /\ tasks = <<>>
    /\ call = NoCall
    /\ sent_request = NoRequest
    /\ datagrams = <<>>
    /\ loop_exceptions = <<>>
    /\ state_event = NoStateEvent
    /\ attribute_read = "no event"
    /\ device = DeviceInit

\* the cache a finished get_info leaves (reached by SpecCommands from Init)
refreshed(data) == setattr(assign(NoAttributes, snapshot_attributes(data)),
                           "palette", Palette)

\* the handle when listen_events is called: fresh, or after a get_info
InitListen ==
    /\ cache \in {NoAttributes, refreshed(InfoData1)}
    /\ auth_token \in {"token", None}
    /\ pc = "Idle"
    /\ outcome = "none"
    /\ callbacks = [state |-> "None", layout |-> "None", effects |-> "None",
                    touch |-> "None", touch_stream |-> "None"]
    /\ socket_port = 0
    /\ request_ids = <<>>
    /\ resp_status = 0
    /\ content = <<>>
    /\ body = "none"
    /\ sleeping = 0
    /\ attempts = 0
    /\ failures = 0
    /\ sent = 0
    /\ frames_read = 0
    /\ tasks = <<>>
    /\ call = NoCall
    /\ sent_request = NoRequest
    /\ datagrams = <<>>
    /\ loop_exceptions = <<>>
    /\ state_event = NoStateEvent
    /\ attribute_read = "no event"
    /\ device = DeviceInit

\* the event engine, the device and the network, and the scheduled tasks
Next ==
    \/ \E cbs \in CallbackConfigs : listen_events(cbs)
    \/ \E status \in {200, 401} : session_get_response(status)
    \/ session_get_error
    \/ \E n \in DOMAIN Frames : server_send(Frames[n])
    \/ server_close
    \/ connection_reset
    \/ read_frame
    \/ sleep_done
    \/ cancel
    \/ \E i \in DOMAIN tasks, how \in {"finished", "failed"} : task_ends(i, how)

Spec == InitListen /\ [][Next]_vars

\* a handle refreshed from the device, with a token
InitSync ==
    /\ InitListen
    /\ cache = refreshed(InfoData1)
    /\ auth_token = "token"

\* the engine and a get_info next to a device that changes its state
NextSync ==
    \/ \E cbs \in {c \in CallbackConfigs : c.state # "plain"} : listen_events(cbs)
    \/ session_get_response(200)
    \/ session_get_error
    \/ connection_reset
    \/ read_frame
    \/ sleep_done
    \/ start_call("get_info", "Forest")
    \/ device_snapshot
    \/ device_response
    \/ \E k \in {"brightness", "effect"} : \E v \in DeviceValues(k) : device_change(k, v)

SpecSync == InitSync /\ [][NextSync]_vars

\* the frames and callbacks of the runs in which commands interleave with the engine
CommandFrames == {1, 5, 6}

CommandCallbacks ==
    {cbs \in CallbackConfigs : cbs.effects = "coroutine"}

\* command calls interleaved with the engine
NextCommands ==
    \/ \E op \in Ops, effect \in {"Forest", "Ghost"} : start_call(op, effect)
    \/ request_disconnected
    \/ request_failed
    \/ \E status \in {200, 401, 500}, data \in InfoData : response(status, data)
    \/ \E cbs \in CommandCallbacks : listen_events(cbs)
    \/ session_get_response(200)
    \/ \E n \in CommandFrames : server_send(Frames[n])
    \/ read_frame

SpecCommands == Init /\ [][NextCommands]_vars

\* the frames of the runs in which the UDP socket receives datagrams
TouchFrames == {1, 8}

\* the UDP touch stream next to the event engine
NextTouch ==
    \/ \E cbs \in CallbackConfigs : listen_events(cbs)
    \/ session_get_response(200)
    \/ \E n \in TouchFrames : server_send(Frames[n])
    \/ read_frame
    \/ cancel
    \/ \E n \in DOMAIN Datagrams, addr \in Addrs : datagram_received(Datagrams[n], addr)

SpecTouch == Init /\ [][NextTouch]_vars

\* frames whose processing fails at a record that others follow
FailingFrames ==
    <<[id |-> StateEvent_EVENT_TYPE_ID,
       events |-> <<StateRecord(4), StateRecord(7), StateRecord(2)>>],
      [id |-> UnknownEventTypeId,
       events |-> <<[attr |-> 1, value |-> "0"], [attr |-> 2, value |-> "75"]>>]>>

\* the callbacks of the runs that read frames: those above, and a state callback
\* alone
FrameCallbacks ==
    CallbackConfigs \cup
    {[state |-> "coroutine", layout |-> "None", effects |-> "None", touch |-> "None",
      touch_stream |-> "None"]}

\* the frames of a response read one after the other, with no failure of the
\* transport
NextFrames ==
    \/ \E cbs \in FrameCallbacks : listen_events(cbs)
    \/ session_get_response(200)
    \/ \E n \in DOMAIN Frames : server_send(Frames[n])
    \/ \E n \in DOMAIN FailingFrames : server_send(FailingFrames[n])
    \/ read_frame
    \/ \E i \in DOMAIN tasks, how \in {"finished", "failed"} : task_ends(i, how)

SpecFrames == InitListen /\ [][NextFrames]_vars

\* the callbacks of the runs in which the subscription request is followed:
\* a layout, a touch and a touch stream callback, each given or not
SubscriptionCallbacks ==
    [state : {"None"}, effects : {"None"}, layout : {"None", "coroutine"},
     touch : {"None", "coroutine"}, touch_stream : {"None", "coroutine"}]

\* the connection attempts of the engine
NextSubscribe ==
    \/ \E cbs \in SubscriptionCallbacks : listen_events(cbs)
    \/ session_get_response(200)
    \/ session_get_error
    \/ session_get_disconnected
    \/ connection_reset
    \/ read_frame
    \/ sleep_done
    \/ cancel

SpecSubscribe == Init /\ [][NextSubscribe]_vars

\* StateEvents built and read on their own
NextEvents ==
    \/ \E event_data \in StateEventData : StateEvent_init(event_data)
    \/ read_attribute

SpecEvents == Init /\ [][NextEvents]_vars

\* the frames of the runs in which the progress of the engine is followed: a
\* frame of one record, of two, of each kind that is patched or only scheduled,
\* and of an unknown kind
LiveFrames == {1, 2, 5, 8, 9}

NextLive ==
    \/ \E cbs \in CallbackConfigs : listen_events(cbs)
    \/ \E status \in {200, 401} : session_get_response(status)
    \/ session_get_error
    \/ \E n \in LiveFrames : server_send(Frames[n])
    \/ server_close
    \/ connection_reset
    \/ read_frame
    \/ sleep_done
    \/ cancel
    \/ \E i \in DOMAIN tasks, how \in {"finished", "failed"} : task_ends(i, how)

\* the engine under the scheduling asyncio gives: a sleep that is due returns,
\* and a request to a reachable device is answered
LiveSpec ==
    /\ InitListen
    /\ [][NextLive]_vars
    /\ WF_vars(sleep_done)
    /\ WF_vars(session_get_response(200))

----------------------------------------------------------------------------
(* What the claims speak about *)

\* the engine reads a frame from a response that is still open
reads_frame == read_frame /\ body = "open" /\ content # <<>>

\* the cached field the documentation gives for a state attribute id
DocumentedField(a) ==
    CASE a = 1 -> "is_on"
      [] a = 2 -> "brightness"
      [] a = 3 -> "hue"
      [] a = 4 -> "saturation"
      [] a = 5 -> "color_temperature"
      [] a = 6 -> "color_mode"
      [] OTHER -> "undocumented"

\* the records of a state frame the loop gets to patch: those before the first
\* record of an undocumented attribute id, and no more than one when the state
\* callback is a plain callable, whose scheduling ends the loop
PatchedRecords(events) ==
    LET U == {i \in DOMAIN events : events[i].attr \notin 1..6}
        n == IF U = {} THEN Len(events) ELSE (CHOOSE i \in U : \A j \in U : i <= j) - 1
    IN SubSeq(events, 1, IF callbacks.state = "plain" /\ n > 1 THEN 1 ELSE n)

\* the last record of a state frame that names field k, 0 when none does
LastNaming(events, k) ==
    LET I == {i \in DOMAIN events : DocumentedField(events[i].attr) = k}
    IN IF I = {} THEN 0 ELSE CHOOSE i \in I : \A j \in I : j <= i

\* C1: a StateEvent with attribute id 1..6 that the engine processes sets the
\* cached field of that id to the event's value and leaves every other cached field
\* (bounds, effect, effects list, panels, ...) as it was.
C1_StatePatchFrame ==
    [][ (reads_frame /\ Head(content).id = StateEvent_EVENT_TYPE_ID)
        => LET events == PatchedRecords(Head(content).events) IN
           /\ \A i \in DOMAIN events : hasattr(cache', DocumentedField(events[i].attr))
           /\ \A k \in Attributes :
                IF LastNaming(events, k) # 0
                THEN getattr(cache', k) = events[LastNaming(events, k)].value
                ELSE /\ hasattr(cache', k) <=> hasattr(cache, k)
                     /\ getattr(cache', k) = getattr(cache, k) ]_vars

\* C1, witness: after the snapshot 50/100/0, the event {attr 2, value 75}
C1_Witness ==
    /\ hasattr(cache, "brightness_max")
    /\ getattr(cache, "brightness") = "75"
    /\ getattr(cache, "brightness_max") = "100"
    /\ getattr(cache, "brightness_min") = "0"
    /\ getattr(cache, "effect") = "Flames"

\* C2: listen_events ends only by cancellation or on a 401: on a response of
\* another status neither the end of the body nor a frame's content stops it.
C2_StopsOnlyOnCancel ==
    (pc = "Stopped" /\ attempts >= 1 /\ resp_status # 401) => outcome = "cancelled"

\* C2 is refuted by the run TLC reports for C2_StopsOnlyOnCancel.

\* the frames the engine can process to their end: a known event type, and for a
\* state frame known attribute ids
WellFormed(frame) ==
    /\ frame.id \in 1..4
    /\ frame.id = 1 => \A i \in DOMAIN frame.events : frame.events[i].attr \in 1..6

KindOf(id) ==
    CASE id = 1 -> "state" [] id = 2 -> "layout" [] id = 3 -> "effects" [] id = 4 -> "touch"

\* one pending invocation per record of the frame, in the order of the records,
\* when a callback of the frame's kind is registered
ExpectedTasks(frame) ==
    IF callbacks[KindOf(frame.id)] = "None"
    THEN <<>>
    ELSE [i \in DOMAIN frame.events |->
            [callback |-> KindOf(frame.id), event |-> frame.events[i], state |-> "pending"]]

\* the cache holds what the records of the frame say
Applied(frame, obj) ==
    /\ frame.id = 1 =>
         \A i \in DOMAIN frame.events :
            LET k == DocumentedField(frame.events[i].attr) IN
            hasattr(obj, k) /\ getattr(obj, k) = frame.events[LastNaming(frame.events, k)].value
    /\ frame.id = 3 =>
         hasattr(obj, "effect")
         /\ getattr(obj, "effect") = frame.events[Len(frame.events)].value

\* C3: a ClientError of session.get or of the open stream ends the attempt and puts
\* the engine to sleep for the backoff interval; the sleep over, it calls session.get
\* again; however many failures came before, and once requests are answered the
\* engine streams again unless it was cancelled.
C3_BackoffAndReconnect ==
    /\ [][ (session_get_error \/ (read_frame /\ body = "error"))
           => /\ pc' = "Backoff"
              /\ sleeping' = BackoffSeconds
              /\ outcome' = "none"
              /\ content' = <<>>
              /\ resp_status' = 0 ]_vars
    /\ [][ (pc = "Backoff" /\ pc' # "Backoff")
           => \/ outcome' = "cancelled"
              \/ /\ pc' = "Connecting"
                 /\ sleeping = BackoffSeconds
                 /\ attempts' = attempts + 1
                 /\ body' = "none"
                 /\ content' = <<>> ]_vars
    /\ (pc = "Backoff") ~> (pc = "Streaming" \/ outcome = "cancelled")

\* C3, witness: streaming again after two failures, on the third attempt
C3_Witness == failures = 2 /\ attempts = 3 /\ pc = "Streaming" /\ outcome = "none"

\* C4: every record the engine reads is scheduled once, in order, to the callback
\* of its kind (stated for the frames that can be processed to their end).
C4_ScheduledEqualsDelivered ==
    [][ (/\ read_frame
         /\ body # "error"
         /\ content # <<>>
         /\ WellFormed(Head(content))
         /\ callbacks.state # "plain")
        => tasks' = tasks \o ExpectedTasks(Head(content)) ]_vars

\* C5: a disconnect in the middle of the body reaches no caller and changes neither
\* cache nor tasks; each failure is followed by one new session.get; and the frames
\* read after a reconnection are applied to the cache and scheduled in order.
C5_ReconnectOnce ==
    /\ [][ (read_frame /\ body = "error")
           => (pc' = "Backoff" /\ outcome' = "none" /\ cache' = cache /\ tasks' = tasks) ]_vars
    /\ []( (outcome = "none" /\ pc # "Idle")
           => attempts = failures + (IF pc = "Backoff" THEN 0 ELSE 1) )
    /\ [][ (/\ reads_frame
            /\ failures >= 1
            /\ WellFormed(Head(content))
            /\ callbacks.state # "plain")
           => /\ pc' = "Streaming"
              /\ outcome' = "none"
              /\ tasks' = tasks \o ExpectedTasks(Head(content))
              /\ Applied(Head(content), cache') ]_vars

\* C5, witness: one disconnect, the second attempt streaming, and an effects event
\* received on it applied and scheduled
C5_Witness ==
    /\ failures = 1
    /\ attempts = 2
    /\ pc = "Streaming"
    /\ outcome = "none"
    /\ sent = 1
    /\ frames_read = 1
    /\ Len(tasks) = 1
    /\ tasks[1].callback = "effects"
    /\ getattr(cache, "effect") = tasks[1].event.value

\* C6: a frame of an unknown event type sends the engine to backoff.
C6_UnknownTypeIsRecoverable ==
    [][ (reads_frame /\ Head(content).id \notin 1..4 /\ Head(content).events # <<>>)
        => (pc' = "Backoff" /\ outcome' = "none") ]_vars

\* C7: a 401 answer to the subscription ends listen_events with InvalidToken.
C7_InvalidTokenOnSubscription ==
    (pc = "Stopped" /\ resp_status = 401 /\ outcome # "cancelled")
        => outcome = "InvalidToken"

\* C8: a 401 answer to a command makes the call raise InvalidToken at once, with no
\* request sent and neither cache nor token written in that step, and the call
\* stays as it ended.
C8_InvalidTokenOnCommand ==
    /\ [][ (\E data \in InfoData : response(401, data))
           => /\ call'.pc = "done"
              /\ call'.result = "InvalidToken"
              /\ call'.requests = call.requests
              /\ cache' = cache
              /\ auth_token' = auth_token ]_vars
    /\ [][ (call.result = "InvalidToken")
           => (call' = call \/ call'.made = call.made + 1) ]_vars

\* C8, witness: deauthorize answered 401, the token kept
C8_Witness ==
    call.op = "deauthorize" /\ call.result = "InvalidToken" /\ auth_token = "token"

\* C9: whatever a registered callback does, the engine goes on reading after a
\* frame it can process.
C9_CallbackNeverStopsEngine ==
    [][ (reads_frame /\ WellFormed(Head(content)))
        => (pc' = "Streaming" /\ outcome' = "none") ]_vars

\* C10: selected_effect is the cached effect when the cached list holds it, and
\* None when it does not.
C10_SelectedEffect ==
    (hasattr(cache, "effect") /\ hasattr(cache, "effects_list")) =>
        LET listed == \E i \in DOMAIN getattr(cache, "effects_list") :
                         getattr(cache, "effects_list")[i] = getattr(cache, "effect")
        IN /\ listed => selected_effect(cache) = getattr(cache, "effect")
           /\ ~listed => selected_effect(cache) = None

\* C10, witness: an effects event named an effect the list does not hold
C10_Witness ==
    /\ hasattr(cache, "effects_list")
    /\ getattr(cache, "effect") = "Ghost"
    /\ getattr(cache, "effects_list") = <<"Forest">>
    /\ selected_effect(cache) = None

----------------------------------------------------------------------------
(* The UDP touch stream *)

\* the socket receives a datagram in this step; Received is that datagram
receives == Len(datagrams') = Len(datagrams) + 1

Received == datagrams'[Len(datagrams')]

\* the fields of a datagram by the documented layout: one bit, 16 bits of panel id,
\* 4 bits of touch type, 4 bits of strength, the rest the second panel id
Layout(data) ==
    [panel_id |-> from_bits(SubSeq(data, 2, 17)),
     touch_type_id |-> from_bits(SubSeq(data, 18, 21)),
     strength |-> from_bits(SubSeq(data, 22, 25)),
     panel_id_2 |-> from_bits(SubSeq(data, 26, Len(data)))]

\* long enough for the layout with a second panel id of at least one bit
LongEnough(data) == Len(data) >= 26

\* the task of a touch stream callback for an event
TouchStreamTask(event) ==
    [callback |-> "touch_stream", event |-> event, state |-> "pending"]

\* C11: a datagram whose sender is not the device host schedules nothing, raises
\* nothing and leaves the engine alone, whatever its content; a task is made on
\* the receipt of a datagram only when its sender is the device host.
C11_ForeignDatagramDropped ==
    [][ receives =>
          /\ Received.addr # Host =>
                /\ tasks' = tasks
                /\ loop_exceptions' = loop_exceptions
                /\ pc' = pc
                /\ outcome' = outcome
                /\ cache' = cache
          /\ tasks' # tasks => Received.addr = Host ]_vars

\* C11, witness: the same datagram from another sender and from the device; only
\* the second one is scheduled
C11_Witness ==
    /\ datagrams = <<[addr |-> "192.168.0.66", data |-> Datagrams[1]],
                     [addr |-> Host, data |-> Datagrams[1]]>>
    /\ tasks = <<TouchStreamTask(Layout(Datagrams[1]))>>
    /\ loop_exceptions = <<>>

\* C12: every datagram of the device that is long enough is decoded by the layout,
\* whatever its first bit and its leading bits.
C12_DecodeByLayout ==
    [][ (/\ receives
         /\ Received.addr = Host
         /\ LongEnough(Received.data)
         /\ callbacks.touch_stream = "coroutine")
        => tasks' = Append(tasks, TouchStreamTask(Layout(Received.data))) ]_vars

\* C13: a datagram of the device too short for the layout makes no event and no
\* task, its decode failure reaches neither the engine nor the socket, and a
\* datagram of the layout received later is decoded and scheduled.
C13_ShortDatagram ==
    /\ [][ (receives /\ Received.addr = Host /\ ~LongEnough(Received.data))
           => /\ tasks' = tasks
              /\ loop_exceptions' = Append(loop_exceptions, "ValueError")
              /\ pc' = pc
              /\ outcome' = outcome
              /\ socket_port' = socket_port ]_vars
    /\ [][ (/\ receives
            /\ loop_exceptions # <<>>
            /\ Received.addr = Host
            /\ LongEnough(Received.data)
            /\ Head(Received.data) = 1
            /\ callbacks.touch_stream = "coroutine")
           => tasks' = Append(tasks, TouchStreamTask(Layout(Received.data))) ]_vars

\* C13, witness: a datagram of 3 bytes failed, the engine streams, and the next
\* datagram is scheduled
C13_Witness ==
    /\ datagrams = <<[addr |-> Host, data |-> Datagrams[5]],
                     [addr |-> Host, data |-> Datagrams[1]]>>
    /\ loop_exceptions = <<"ValueError">>
    /\ tasks = <<TouchStreamTask(Layout(Datagrams[1]))>>
    /\ pc = "Streaming"
    /\ outcome = "none"

----------------------------------------------------------------------------
(* StateEvent.attribute *)

\* C14: the attribute of a StateEvent is the documented name for the ids 1..6 and a
\* key-lookup error, never a default name, for every other id.
C14_AttributeAccessor ==
    attribute_read \notin {"no event", "unread"} =>
        IF state_event.attr \in 1..6
        THEN attribute_read = DocumentedField(state_event.attr)
        ELSE attribute_read = "KeyError"

\* C14, witness: the attribute of an event of id 7 was read
C14_Witness == state_event.attr = 7 /\ attribute_read = "KeyError"

----------------------------------------------------------------------------
(* Preconditions and sockets *)

\* C15: NoAuthToken is raised before any request is sent and before any UDP socket
\* is bound, by listen_events and by every command; InvalidEffect is raised with
\* no request sent.
C15_PreconditionsBeforeIO ==
    /\ outcome = "NoAuthToken" => (attempts = 0 /\ ~touch_socket_open)
    /\ call.result \in {"NoAuthToken", "InvalidEffect"} => call.requests = 0

\* C16: once the engine has stopped, by cancellation or otherwise, it holds no
\* socket: neither the connection of the event stream nor the UDP touch socket.
C16_SocketsReleased ==
    (pc = "Stopped" /\ attempts >= 1) => (~response_open /\ ~touch_socket_open)

\* C17: after a get_info the cached panels hold no two panels of the same id,
\* also when the positionData of the snapshot lists an id twice.
C17_PanelIdsUnique ==
    hasattr(cache, "panels") =>
        \A p, q \in getattr(cache, "panels") : p.id = q.id => p = q

----------------------------------------------------------------------------
(* The subscription request *)

\* the ids the callbacks ask for, in the order 1, 3, 2, 4
ExpectedIds ==
    <<1, 3>>
    \o (IF callbacks.layout # "None" THEN <<2>> ELSE <<>>)
    \o (IF callbacks.touch # "None" \/ callbacks.touch_stream # "None"
        THEN <<4>> ELSE <<>>)

\* the engine calls session.get in this step
requests == attempts' = attempts + 1

\* C18: the ids of the subscription url are 1 and 3, then 2 exactly when a layout
\* callback is given, then 4 exactly when a touch or a touch stream callback is
\* given, and every reconnect uses the url of the first request.
C18_SubscriptionIds ==
    /\ [](attempts >= 1 => sent_request.url = ExpectedIds)
    /\ [][ (requests /\ attempts >= 1) => sent_request'.url = sent_request.url ]_vars

\* C18, witness: the second request of an engine with a touch stream callback only
C18_Witness ==
    /\ attempts = 2
    /\ callbacks.touch = "None"
    /\ callbacks.layout = "None"
    /\ sent_request.url = <<1, 3, 4>>

\* C19: with a touch stream callback the socket is bound before the first request
\* and never bound again, and every request, each reconnect included, carries its
\* port as TouchEventsPort; without one no socket is bound and no request carries
\* the header.
C19_TouchEventsPort ==
    /\ [](attempts >= 1 =>
            IF callbacks.touch_stream # "None"
            THEN touch_socket_open /\ sent_request.TouchEventsPort = socket_port
            ELSE ~touch_socket_open /\ sent_request.TouchEventsPort = 0)
    /\ [](callbacks.touch_stream = "None" => ~touch_socket_open)
    /\ [][ touch_socket_open => socket_port' = socket_port ]_vars
    /\ [][ requests =>
             sent_request'.TouchEventsPort =
                (IF callbacks'.touch_stream # "None" THEN socket_port' ELSE 0) ]_vars

\* C19, witness: the third request, after two failures, carries the port
C19_Witness ==
    /\ attempts = 3
    /\ failures = 2
    /\ pc = "Connecting"
    /\ callbacks.touch_stream = "coroutine"
    /\ sent_request.TouchEventsPort = EphemeralPort

\* C20: a disconnect of the server on the request of a connection attempt is
\* followed by one immediate retry of the request, with no backoff wait.
C20_ImmediateRetry ==
    [][ session_get_disconnected
        => (pc' = "Connecting" /\ sleeping' = 0 /\ attempts' = attempts + 1) ]_vars

----------------------------------------------------------------------------
(* The requests of a command *)

\* C21, as claimed: a request of a command that fails at the network level, by a
\* disconnect of the server or otherwise, ends the call with Unavailable and is not
\* sent again.
C21_SentExactlyOnce ==
    [][ (request_disconnected \/ request_failed)
        => (call'.result = "Unavailable" /\ call'.requests = call.requests) ]_vars

\* C21, amended: a request is sent again only after a disconnect of the server on
\* its first sending, and then once; every other network failure, and every
\* failure of the second sending, ends the call with Unavailable, once.
C21_RetriedOnceOnDisconnect ==
    /\ [][ request_failed
           => /\ call'.pc = "done"
              /\ call'.result = "Unavailable"
              /\ call'.requests = call.requests ]_vars
    /\ [][ request_disconnected
           => IF call.try = 1
              THEN /\ call'.pc = "request"
                   /\ call'.result = "none"
                   /\ call'.try = 2
                   /\ call'.requests = call.requests + 1
              ELSE /\ call'.pc = "done"
                   /\ call'.result = "Unavailable"
                   /\ call'.requests = call.requests ]_vars
    /\ [](call.requests <= 2 * call.stage)
    /\ [][ call.result = "Unavailable"
           => (call' = call \/ call'.made = call.made + 1) ]_vars

\* C21, witness: identify, disconnected twice: two requests and Unavailable
C21_Witness ==
    /\ call.op = "identify"
    /\ call.result = "Unavailable"
    /\ call.try = 2
    /\ call.requests = 2

----------------------------------------------------------------------------
(* The records of a frame *)

\* C22: a LayoutEvent or TouchEvent record changes no cached field; an EffectsEvent
\* record sets the cached effect to its value and changes no other cached field;
\* with or without a callback of the kind.
C22_OnlyEffectPatched ==
    [][ (reads_frame /\ Head(content).events # <<>>)
        => LET frame == Head(content) IN
           /\ frame.id \in {LayoutEvent_EVENT_TYPE_ID, TouchEvent_EVENT_TYPE_ID}
                => cache' = cache
           /\ frame.id = EffectsEvent_EVENT_TYPE_ID
                => /\ hasattr(cache', "effect")
                   /\ getattr(cache', "effect") = frame.events[Len(frame.events)].value
                   /\ \A k \in Attributes \ {"effect"} :
                         /\ hasattr(cache', k) <=> hasattr(cache, k)
                         /\ getattr(cache', k) = getattr(cache, k) ]_vars

\* C22, witness: a layout frame and an effects frame read after a snapshot
C22_Witness ==
    /\ Len(tasks) = 2
    /\ tasks[1].callback = "layout"
    /\ tasks[2].callback = "effects"
    /\ getattr(cache, "effect") = "Forest"
    /\ getattr(cache, "effects_list") = <<"Flames", "Forest">>
    /\ getattr(cache, "brightness") = "50"
    /\ getattr(cache, "palette") = Palette

\* the pending invocations a step adds
NewTasks == SubSeq(tasks', Len(tasks) + 1, Len(tasks'))

\* C23: the patch of a StateEvent or EffectsEvent record is applied before its
\* callback is scheduled, and with no callback as well: an invocation scheduled by
\* a frame finds in the cached field of its event the event's value or that of a
\* later record of the field; a record whose callback fails at scheduling has been
\* applied; and while an invocation is pending only a later record writes its field.
C23_PatchBeforeSchedule ==
    [][ /\ (reads_frame /\ Head(content).id = StateEvent_EVENT_TYPE_ID)
            => LET events == PatchedRecords(Head(content).events) IN
               /\ \A j \in DOMAIN NewTasks :
                     LET k == DocumentedField(NewTasks[j].event.attr) IN
                     /\ NewTasks[j].callback = "state"
                     /\ LastNaming(events, k) >= j
                     /\ events[j] = NewTasks[j].event
                     /\ getattr(cache', k) = events[LastNaming(events, k)].value
               /\ callbacks.state = "None"
                     => /\ NewTasks = <<>>
                        /\ \A i \in DOMAIN events :
                              LET k == DocumentedField(events[i].attr) IN
                              getattr(cache', k) = events[LastNaming(events, k)].value
               /\ (callbacks.state = "plain" /\ events # <<>>)
                     => /\ outcome' = "TypeError"
                        /\ NewTasks = <<>>
                        /\ getattr(cache', DocumentedField(events[1].attr)) = events[1].value
        /\ (reads_frame /\ Head(content).id = EffectsEvent_EVENT_TYPE_ID
               /\ Head(content).events # <<>>)
            => LET events == Head(content).events IN
               /\ getattr(cache', "effect") = events[Len(events)].value
               /\ \A j \in DOMAIN NewTasks :
                     NewTasks[j].callback = "effects" /\ NewTasks[j].event = events[j]
               /\ callbacks.effects = "None" => NewTasks = <<>>
        /\ \A i \in DOMAIN tasks :
              LET k == IF tasks[i].callback = "state"
                       THEN DocumentedField(tasks[i].event.attr)
                       ELSE "effect" IN
              (tasks[i].callback \in {"state", "effects"}
                 /\ getattr(cache', k) # getattr(cache, k))
              => /\ reads_frame
                 /\ Head(content).id = (IF k = "effect" THEN EffectsEvent_EVENT_TYPE_ID
                                                        ELSE StateEvent_EVENT_TYPE_ID)
                 /\ k # "effect"
                      => LastNaming(PatchedRecords(Head(content).events), k) # 0 ]_vars

\* C23, witness: a pending state invocation whose field holds its value, and an
\* effect patched with no effects callback
C23_Witness ==
    /\ tasks # <<>>
    /\ tasks[1].callback = "state"
    /\ tasks[1].state = "pending"
    /\ getattr(cache, DocumentedField(tasks[1].event.attr)) = tasks[1].event.value
    /\ callbacks.effects = "None"
    /\ getattr(cache, "effect") = "Forest"

\* record i of a state frame is applied to obj: its field holds the value of the
\* last record of the frame that names the field
RecordApplied(events, i, obj) ==
    /\ events[i].attr \in 1..6
    /\ getattr(obj, DocumentedField(events[i].attr))
         = events[LastNaming(events, DocumentedField(events[i].attr))].value

\* some but not all records of the frame are applied to obj
Torn(events, obj) ==
    /\ \E i \in DOMAIN events : RecordApplied(events, i, obj)
    /\ \E j \in DOMAIN events : ~RecordApplied(events, j, obj)

FirstUnknown(events) ==
    LET U == {i \in DOMAIN events : events[i].attr \notin 1..6}
    IN IF U = {} THEN 0 ELSE CHOOSE i \in U : \A j \in U : i <= j

\* C27: when the processing of a frame fails at its k-th record (a state attribute
\* id outside the table, or an event-type id outside 1..4), the patches of records
\* 1..k-1 are applied and their callbacks scheduled, and record k and the records
\* after it change no cached field and schedule no callback; the engine ends.
C27_FailureKeepsPrefix ==
    [][ /\ (reads_frame /\ Head(content).id = StateEvent_EVENT_TYPE_ID
               /\ FirstUnknown(Head(content).events) # 0
               /\ (callbacks.state = "plain"
                      => FirstUnknown(Head(content).events) = 1))
            => LET events == Head(content).events
                   done   == SubSeq(events, 1, FirstUnknown(events) - 1)
               IN /\ pc' = "Stopped"
                  /\ outcome' = "KeyError"
                  /\ \A f \in Attributes :
                        IF LastNaming(done, f) # 0
                        THEN /\ hasattr(cache', f)
                             /\ getattr(cache', f) = done[LastNaming(done, f)].value
                        ELSE /\ hasattr(cache', f) <=> hasattr(cache, f)
                             /\ getattr(cache', f) = getattr(cache, f)
                  /\ tasks' = tasks \o
                        (IF callbacks.state = "None"
                         THEN <<>>
                         ELSE [i \in DOMAIN done |->
                                 [callback |-> "state", event |-> done[i],
                                  state |-> "pending"]])
        /\ (reads_frame /\ Head(content).id \notin 1..4
               /\ Head(content).events # <<>>)
            => /\ pc' = "Stopped"
               /\ outcome' = "NanoleafException"
               /\ cache' = cache
               /\ tasks' = tasks ]_vars

\* C27, witness: the frame {saturation, attribute 7, brightness} read after the
\* snapshot: saturation patched and its callback scheduled, brightness as before
C27_Witness ==
    /\ pc = "Stopped"
    /\ outcome = "KeyError"
    /\ getattr(cache, "saturation") = "30"
    /\ getattr(cache, "brightness") = "50"
    /\ Len(tasks) = 1
    /\ tasks[1].event = StateRecord(4)

----------------------------------------------------------------------------
(* The snapshot refresh *)

\* the attributes only get_info writes: those no event patches
SnapshotOnly == Attributes \ ({DocumentedField(a) : a \in 1..6} \cup {"effect"})

\* C26: a get_info that fails on its snapshot request or on its palette request
\* modifies no cached field (the handle was fresh: none of the attributes exists
\* after it), and after one that succeeds every snapshot field and the palette
\* come from that refresh.
C26_RefreshAllOrNothing ==
    /\ (call.op = "get_info" /\ call.pc = "done" /\ call.result # "ok")
         => \A k \in SnapshotOnly : ~hasattr(cache, k)
    /\ (call.op = "get_info" /\ call.pc = "done" /\ call.result = "ok")
         => \E data \in InfoData :
              \A k \in SnapshotOnly :
                 hasattr(cache, k) /\ getattr(cache, k) = getattr(refreshed(data), k)

\* C26 is refuted by the run TLC reports for C26_RefreshAllOrNothing: the
\* snapshot request answered, the palette request failed.

----------------------------------------------------------------------------
(* The cache and the device *)

\* nothing the device sent waits to be processed: the stream is open and read to
\* its end, and no get_info is under way
Quiescent ==
    /\ pc = "Streaming"
    /\ body = "open"
    /\ content = <<>>
    /\ call.pc \in {"idle", "done"}

\* C25: whenever the engine is streaming and every event and snapshot response
\* the device sent has been processed, the cached brightness and effect are the
\* device's; also after a change made during the backoff, and after a get_info
\* response produced before a change and applied after its event.
C25_CacheSynchronised ==
    Quiescent
    => /\ getattr(cache, "brightness") = device.brightness
       /\ getattr(cache, "effect") = device.effect

\* C25 is refuted by the runs TLC reports for C25_CacheSynchronised.

====
